---- MODULE Spec2Model ----
(***************************************************************************)
(* Model of the ParcelApp polling coordinator                              *)
(* (custom_components/parcelapp): the rate-limit state machine of          *)
(* ParcelAppCoordinator._async_update_data, the sqlite cache it reads, the *)
(* setup code that arms the start-up shortcut, and the reconciliation of   *)
(* raw deliveries into published records.  Further specifications run    *)
(* _should_remove_delivery, _process_deliveries and the ParcelAppCache     *)
(* methods on their own, and the config entry with its cleanup tasks.      *)
(*                                                                         *)
(* Python's None is the empty sequence <<>> and a present value v is <<v>>.*)
(* Times are seconds on the wall clock `now`.                              *)
(***************************************************************************)
EXTENDS Integers, Sequences, FiniteSets, TLC

VARIABLES
    now,                 \* datetime.now(), in seconds
    pc,                  \* where the coordinator's update coroutine stands
    rate_limited,        \* self._rate_limited
    rate_limit_until,    \* self._rate_limit_until  (<<>> or <<t>>)
    probe_in_progress,   \* self._probe_in_progress
    skip_first_request,  \* self._skip_first_request
    cache,               \* rows of the sqlite table `deliveries`
    data,                \* coordinator.data: <<>> or <<snapshot>>
    tick,                \* record of the running / last finished update
    prev,                \* summary of the update that finished before `tick`
    delivery,            \* the delivery dict handed to _should_remove_delivery
    removed,             \* what it returned: <<>> before the call, else <<b>>
    raw,                 \* the list handed to _process_deliveries
    processed,           \* its first call: <<>> or <<[at, raises, deliveries]>>
    again,               \* a second call on the same list, likewise
    saved,               \* last save_deliveries call: <<>> or <<[batch, before]>>
    loaded,              \* last load_deliveries call: <<>> or <<[failed, deliveries]>>
    kv,                  \* tracking number -> the delivery last saved under it
    entry,               \* the config entry: [state, gen], gen counts set-ups
    loops,               \* the async_cleanup_old_deliveries tasks created
    devices              \* tracking numbers with a device in the registry

vars == <<now, pc, rate_limited, rate_limit_until, probe_in_progress,
          skip_first_request, cache, data, tick, prev, delivery, removed,
          raw, processed, again, saved, loaded, kv, entry, loops, devices>>

\* the variables of a call of _should_remove_delivery on its own
reconciler == <<delivery, removed>>
\* the variables of calls of _process_deliveries on their own
processing == <<raw, processed, again>>
\* the variables of calls of the ParcelAppCache methods on their own
caching == <<saved, loaded, kv>>
\* the variables of the config entry's set-up, unload and cleanup tasks
lifecycle == <<entry, loops, devices>>
\* all of them: the coordinator's actions leave them alone
standalone == <<reconciler, processing, caching, lifecycle>>

----------------------------------------------------------------------------
(* Bounds of the model *)

\* the clock advances in steps of TimeStep seconds ...
TimeStep == 1800
\* ... up to MaxTime
MaxTime == 7200
\* number of updates of one coordinator instance that are explored
MaxTicks == 4
\* the oldest date_expected handed to the Reconciler, in days before day 0
MaxDaysBack == 4
\* the longest list handed to _process_deliveries or to save_deliveries
MaxBatch == 2
\* number of set-ups of the config entry that are explored
MaxSetups == 2

(* Program constants *)

\* timedelta(hours=1), in seconds
COOLDOWN == 3600
\* UpdateFailed(error_msg, retry_after=3600)
RETRY_AFTER == 3600
DEFAULT_REMOVAL_AGE_DAYS == 3
\* DEFAULT_POLL_INTERVAL = MIN_POLL_INTERVAL, in seconds
POLL_INTERVAL == 360
\* the callers of the coordinator's refresh
RefreshCallers == {"first_refresh", "interval", "cleanup_loop"}
SECONDS_PER_DAY == 86400

None == <<>>
Some(v) == <<v>>
\* a dict without keys
EmptyMap == [id \in {} |-> None]
\* a config entry that was never set up
NoEntry == [state |-> "not_loaded", gen |-> 0]

----------------------------------------------------------------------------
(* Reconciliation of raw deliveries *)

\* the table without its last entry
StatusName_NoCarrierInfo(code) ==
    IF code = Some(0) THEN "completed"
    ELSE IF code = Some(1) THEN "frozen"
    ELSE IF code = Some(2) THEN "in_transit"
    ELSE IF code = Some(3) THEN "awaiting_pickup"
    ELSE IF code = Some(4) THEN "out_for_delivery"
    ELSE IF code = Some(5) THEN "not_found"
    ELSE IF code = Some(6) THEN "failed_attempt"
    ELSE IF code = Some(7) THEN "exception"
    ELSE "unknown"

\* DELIVERY_STATUS_CODES.get(code, "unknown"); code is <<>> or <<n>>
StatusName(code) ==
    IF code = Some(0) THEN "completed"
    ELSE IF code = Some(1) THEN "frozen"
    ELSE IF code = Some(2) THEN "in_transit"
    ELSE IF code = Some(3) THEN "awaiting_pickup"
    ELSE IF code = Some(4) THEN "out_for_delivery"
    ELSE IF code = Some(5) THEN "not_found"
    ELSE IF code = Some(6) THEN "failed_attempt"
    ELSE IF code = Some(7) THEN "exception"
    ELSE IF code = Some(8) THEN "carrier_info_received"
    ELSE "unknown"

\* A date_expected value is [kind, day, sec]: kind "none" is a missing key or
\* None, "empty" the empty string, "invalid" a string strptime rejects
\* (ValueError), "nonstr" a number (TypeError), "object" a value that is
\* neither a string nor JSON, such as a datetime (TypeError), and "valid" the
\* string "%Y-%m-%d %H:%M:%S" of day `day` (counted from the day of time 0)
\* and second `sec` of that day.
NoDate == [kind |-> "none", day |-> 0, sec |-> 0]
EmptyDate == [kind |-> "empty", day |-> 0, sec |-> 0]
NonStringDate == [kind |-> "nonstr", day |-> 0, sec |-> 0]
InvalidDate == [kind |-> "invalid", day |-> 0, sec |-> 0]
ObjectDate == [kind |-> "object", day |-> 0, sec |-> 0]
ValidDate(d, s) == [kind |-> "valid", day |-> d, sec |-> s]

\* datetime.strptime(date_str, "%Y-%m-%d %H:%M:%S") as seconds
ParseDate(date) == date.day * SECONDS_PER_DAY + date.sec

\* (now - delivery_date).days: timedelta normalises to a floored day count
DaysAgo(t, date) == (t - ParseDate(date)) \div SECONDS_PER_DAY

\* the age compared with > instead of >=
ShouldRemoveDelivery_Strict(d, t) ==
    IF d.status_code # Some(0) THEN FALSE
    ELSE IF d.date_expected.kind \in {"none", "empty"} THEN FALSE
    ELSE IF d.date_expected.kind \in {"invalid", "nonstr", "object"} THEN FALSE
    ELSE DaysAgo(t, d.date_expected) > DEFAULT_REMOVAL_AGE_DAYS

\* ParcelAppCoordinator._should_remove_delivery at clock t
ShouldRemoveDelivery(d, t) ==
    IF d.status_code # Some(0) THEN FALSE
    ELSE IF d.date_expected.kind \in {"none", "empty"} THEN FALSE
    ELSE IF d.date_expected.kind \in {"invalid", "nonstr", "object"} THEN FALSE
    ELSE DaysAgo(t, d.date_expected) >= DEFAULT_REMOVAL_AGE_DAYS

\* the exception strptime raises on a date_expected, <<>> when it parses
StrptimeError(date) ==
    IF date.kind = "invalid" THEN Some("ValueError")
    ELSE IF date.kind \in {"nonstr", "object"} THEN Some("TypeError")
    ELSE None

\* except ValueError alone
DateErrorCaught_ValueOnly(e) == e = "ValueError"

\* except (ValueError, TypeError)
DateErrorCaught(e) == e \in {"ValueError", "TypeError"}

\* the exception that leaves _should_remove_delivery, <<>> when it returns
ShouldRemoveRaises(d, t) ==
    IF d.status_code # Some(0) THEN None
    ELSE IF d.date_expected.kind \in {"none", "empty"} THEN None
    ELSE LET e == StrptimeError(d.date_expected)
         IN  IF e # None /\ ~DateErrorCaught(e[1]) THEN e ELSE None

\* the delivery_data dict built for one raw delivery, with should_remove
ProcessDelivery(d, t) ==
    [tracking_number |-> d.tracking_number,
     status_code     |-> d.status_code,
     status_name     |-> StatusName(d.status_code),
     date_expected   |-> d.date_expected,
     should_remove   |-> ShouldRemoveDelivery(d, t)]

\* the list filled from its last delivery to its first
ProcessDeliveries_Reversed(deliveries, t) ==
    [i \in 1..Len(deliveries) |->
        ProcessDelivery(deliveries[Len(deliveries) + 1 - i], t)]

\* the loop over `deliveries` that fills processed_deliveries
ProcessDeliveries(deliveries, t) ==
    [i \in 1..Len(deliveries) |-> ProcessDelivery(deliveries[i], t)]

\* the loop as its caller sees it: an exception of _should_remove_delivery
\* leaves the loop and no list is returned
ProcessOutcome(deliveries, t) ==
    LET raising == { i \in 1..Len(deliveries) :
                       ShouldRemoveRaises(deliveries[i], t) # None }
    IN  [raises |-> raising # {},
         deliveries |-> IF raising # {} THEN <<>>
                        ELSE ProcessDeliveries(deliveries, t)]

----------------------------------------------------------------------------
(* The remote API: what get_deliveries can hand back *)

RawA == [tracking_number |-> Some("A"), status_code |-> Some(2),
         date_expected |-> NoDate]
RawB == [tracking_number |-> Some("B"), status_code |-> Some(0),
         date_expected |-> ValidDate(-5, 0)]
RawC == [tracking_number |-> None, status_code |-> Some(9),
         date_expected |-> InvalidDate]

\* lists of raw deliveries a successful response may carry
Batches == { <<RawA>>, <<RawC, RawB>> }

RATE_LIMIT_MESSAGE ==
    "You were rate limited, please do not send more than 20 requests per hour."

\* error texts of failed responses
ErrorMessages == { RATE_LIMIT_MESSAGE, "HTTP 500" }

\* every error text taken for a rate limit
MentionsRateLimit_Always(msg) == TRUE

\* "rate limit" in error_msg.lower() or "429" in error_msg
MentionsRateLimit(msg) ==
    msg \in { RATE_LIMIT_MESSAGE, "HTTP 429", "429 Too Many Requests" }

\* A response is the dict get_deliveries returns, or an exception raised
\* while it is awaited or inspected (raises = TRUE).  error_message is <<>>
\* when the key is absent.
OkResponse(b) ==
    [raises |-> FALSE, success |-> TRUE, error_message |-> None,
     deliveries |-> b]
FailResponse(m) ==
    [raises |-> FALSE, success |-> FALSE, error_message |-> m,
     deliveries |-> <<>>]
RaiseResponse ==
    [raises |-> TRUE, success |-> FALSE, error_message |-> None,
     deliveries |-> <<>>]

Responses ==
    { OkResponse(b) : b \in Batches }
    \cup { FailResponse(Some(m)) : m \in ErrorMessages }
    \cup { FailResponse(None), RaiseResponse }

\* result.get("error_message", "Unknown error")
ErrorMsg(r) ==
    IF r.error_message = None THEN "Unknown error" ELSE r.error_message[1]

\* how the coordinator reads a response: result.get("success"), then the
\* rate-limit test on the error text
Classify(r) ==
    IF r.raises THEN "raise"
    ELSE IF r.success THEN "ok"
    ELSE IF MentionsRateLimit(ErrorMsg(r)) THEN "rate_limited"
    ELSE "error"

----------------------------------------------------------------------------
(* The sqlite cache *)

CachedA == [tracking_number |-> Some("A"), status_code |-> Some(2),
            status_name |-> "in_transit", date_expected |-> NoDate,
            should_remove |-> FALSE]
CachedB == [tracking_number |-> Some("B"), status_code |-> Some(0),
            status_name |-> "completed", date_expected |-> ValidDate(-5, 0),
            should_remove |-> FALSE]

\* json.dumps(delivery): the text stored in the column `data`, the values of
\* the dict in the order of its keys
JsonDumps(d) ==
    <<d.tracking_number, d.status_code, d.status_name, d.date_expected,
      d.should_remove>>

\* json.loads(data): the dict the text stands for
JsonLoads(text) ==
    [tracking_number |-> text[1], status_code |-> text[2],
     status_name |-> text[3], date_expected |-> text[4],
     should_remove |-> text[5]]

Row(d) == [id |-> d.tracking_number[1], data |-> JsonDumps(d)]

\* contents of the cache file when the coordinator is constructed
InitialCaches == { <<>>, <<Row(CachedA), Row(CachedB)>> }

\* a read that finds no row
LoadDeliveries_NoRows(rows) == <<>>

\* ParcelAppCache.load_deliveries: SELECT data FROM deliveries
LoadDeliveries(rows) == [i \in 1..Len(rows) |-> JsonLoads(rows[i].data)]

\* the except clause raising again instead of returning []
LoadOutcome_Reraise(rows, fails) ==
    [raises |-> fails, deliveries |-> LoadDeliveries(rows)]

\* load_deliveries as its caller sees it: when sqlite fails (`fails`) the
\* except clause returns [], and nothing is raised
LoadOutcome(rows, fails) ==
    [raises |-> FALSE,
     deliveries |-> IF fails THEN <<>> ELSE LoadDeliveries(rows)]

\* a read that empties the table
RowsAfterLoad_Purged(rows) == <<>>

\* the table after load_deliveries: a SELECT writes nothing
RowsAfterLoad(rows) == rows

\* a delivery dict without a tracking number
CachedNoId == [tracking_number |-> None, status_code |-> Some(9),
               status_name |-> "unknown", date_expected |-> InvalidDate,
               should_remove |-> FALSE]

\* lists of deliveries handed to save_deliveries
SaveBatches == { <<CachedA>>, <<CachedNoId, CachedB>> }

\* INSERT OR IGNORE: a row whose id is already there is left as it is
ReplaceInto_Ignore(rows, id, d) ==
    IF \E k \in 1..Len(rows) : rows[k].id = id THEN rows
    ELSE Append(rows, [id |-> id, data |-> JsonDumps(d)])

\* REPLACE INTO deliveries (id, data) VALUES (?, ?): the row of that id is
\* deleted and the new row is inserted after the others
ReplaceInto(rows, id, d) ==
    Append(SelectSeq(rows, LAMBDA r : r.id # id),
           [id |-> id, data |-> JsonDumps(d)])

\* the loop of save_deliveries over deliveries[i..]: a delivery without a
\* tracking number is skipped
RECURSIVE SaveFrom(_, _, _)
SaveFrom(rows, deliveries, i) ==
    IF i > Len(deliveries) THEN rows
    ELSE IF deliveries[i].tracking_number \in {None, Some("")}
         THEN SaveFrom(rows, deliveries, i + 1)
         ELSE SaveFrom(ReplaceInto(rows, deliveries[i].tracking_number[1],
                                   deliveries[i]),
                       deliveries, i + 1)

\* ParcelAppCache.save_deliveries
SaveDeliveries(rows, deliveries) ==
    IF deliveries = <<>> THEN rows ELSE SaveFrom(rows, deliveries, 1)

\* json.dumps raises TypeError on a value that is not JSON
Serialisable(d) == d.date_expected.kind # "object"

\* the delivery at which the loop of save_deliveries is left, 0 when it runs
\* to its end: a delivery json.dumps rejects, or the REPLACE on which sqlite
\* fails (failAt, <<>> when sqlite does not fail)
RECURSIVE SaveStopsAt(_, _, _)
SaveStopsAt(deliveries, failAt, i) ==
    IF i > Len(deliveries) THEN 0
    ELSE IF deliveries[i].tracking_number \in {None, Some("")}
         THEN SaveStopsAt(deliveries, failAt, i + 1)
         ELSE IF ~Serialisable(deliveries[i]) \/ failAt = Some(i) THEN i
         ELSE SaveStopsAt(deliveries, failAt, i + 1)

\* save_deliveries as its caller sees it.  Leaving the loop leaves the
\* `with` block on an exception, which rolls the transaction back.  A
\* sqlite3.Error is caught and logged; the TypeError of json.dumps reaches
\* `except (json.JSONEncodeError, TypeError)`, and json has no
\* JSONEncodeError: the AttributeError of that lookup leaves the method.
SaveOutcome(rows, deliveries, failAt) ==
    LET k == IF deliveries = <<>> THEN 0
             ELSE SaveStopsAt(deliveries, failAt, 1)
    IN  IF k = 0
        THEN [stopped |-> FALSE, raises |-> None,
              rows |-> SaveDeliveries(rows, deliveries)]
        ELSE [stopped |-> TRUE,
              raises |-> IF Serialisable(deliveries[k]) THEN None
                         ELSE Some("AttributeError"),
              rows |-> rows]

\* ParcelAppCache.clear: DELETE FROM deliveries
ClearRows(rows) == <<>>

\* clear as its caller sees it: a sqlite3.Error is caught and logged, and
\* the table is left as it was
ClearOutcome(rows, fails) == IF fails THEN rows ELSE ClearRows(rows)

----------------------------------------------------------------------------
(* Snapshots, errors and the record kept of every update *)

\* the rate_limited key left out
CachedSnapshot_Unflagged(cached) ==
    [deliveries |-> cached, cached |-> TRUE, rate_limited |-> FALSE]

\* {"deliveries": cached, "cached": True, "rate_limited": True}
CachedSnapshot(cached) ==
    [deliveries |-> cached, cached |-> TRUE, rate_limited |-> TRUE]

\* {"deliveries": cached, "cached": True}; an absent key reads as FALSE
StartupSnapshot(cached) ==
    [deliveries |-> cached, cached |-> TRUE, rate_limited |-> FALSE]

\* {"deliveries": processed_deliveries}
FreshSnapshot(processed_deliveries) ==
    [deliveries |-> processed_deliveries, cached |-> FALSE,
     rate_limited |-> FALSE]

\* UpdateFailed raised at `site`, with its retry_after (<<>> when not given)
UpdateFailed(site, retry) == [site |-> site, retry_after |-> retry]

\* what an update has seen and done so far
NoTick ==
    [no |-> 0, startNow |-> 0, startLimited |-> FALSE, startUntil |-> None,
     startProbe |-> FALSE, startSkip |-> FALSE, startCached |-> FALSE,
     calls |-> 0, probe |-> None, live |-> None, respNow |-> None,
     status |-> "none", err |-> None, exc |-> None,
     read |-> "none", caller |-> "none"]

\* what is remembered of the update before the current one
Summary(t) ==
    [no |-> t.no, status |-> t.status, calls |-> t.calls, probe |-> t.probe]

----------------------------------------------------------------------------
(* Decisions of _async_update_data *)

\* the comparison turned round
InWindow_Reversed(t, until) == t > until

\* the window taken to end at once
InWindow_Never(t, until) == t < t

\* a window that never ends
InWindow_Always(t, until) == t = t

\* now < self._rate_limit_until
InWindow(t, until) == t < until

\* the cooldown left out of the sum
NewLimitUntil_NoCooldown(t) == Some(t)

\* self._rate_limit_until = datetime.now() + timedelta(hours=1), live call
NewLimitUntil(t) == Some(t + COOLDOWN)

\* the cooldown left out of the sum
ExtendedLimitUntil_NoCooldown(t) == Some(t)

\* self._rate_limit_until = datetime.now() + timedelta(hours=1), probe
ExtendedLimitUntil(t) == Some(t + COOLDOWN)

\* the limit kept although the probe failed with a different error
ProbeErrorState_Kept ==
    [rate_limited |-> TRUE, rate_limit_until |-> None,
     probe_in_progress |-> FALSE]

\* the rate-limit fields after a probe that failed with a different error
ProbeErrorState ==
    [rate_limited |-> FALSE, rate_limit_until |-> None,
     probe_in_progress |-> FALSE]

\* the deadline left in place by a probe that succeeded
ProbeOkState_UntilKept ==
    [rate_limited |-> FALSE, rate_limit_until |-> rate_limit_until,
     probe_in_progress |-> FALSE]

\* the rate-limit fields after a probe that succeeded
ProbeOkState ==
    [rate_limited |-> FALSE, rate_limit_until |-> None,
     probe_in_progress |-> FALSE]

\* async_setup_entry: the flag is armed when the cache has deliveries
SetupSkipFlag(o) == ~o.raises /\ o.deliveries # <<>>

----------------------------------------------------------------------------
(* Initial state: a coordinator fresh from __init__ *)

Init ==
    /\ now = 0
    /\ pc = "new"
    /\ rate_limited = FALSE
    /\ rate_limit_until = None
    /\ probe_in_progress = FALSE
    /\ skip_first_request = FALSE
    /\ cache \in InitialCaches
    /\ data = None
    /\ tick = NoTick
    /\ prev = Summary(NoTick)
    /\ delivery = RawA
    /\ removed = None
    /\ raw = <<>>
    /\ processed = None
    /\ again = None
    /\ saved = None
    /\ loaded = None
    /\ kv = EmptyMap
    /\ entry = NoEntry
    /\ loops = <<>>
    /\ devices = {}

----------------------------------------------------------------------------
(* How an update ends *)

\* return <snapshot>: the coordinator stores it as coordinator.data
Publish(t, snap) ==
    /\ tick' = [t EXCEPT !.status = "published"]
    /\ data' = Some(snap)
    /\ pc' = "idle"

\* the type of the exception raised inside the try block at `site`: the
\* coordinator's own raises are UpdateFailed, a request that raises or a
\* response that cannot be read gives some other Exception
RaisedAt(site) == IF site = "unexpected" THEN "Exception" ELSE "UpdateFailed"

\* only UpdateFailed handled: anything else leaves as it was raised
ExceptClauses_NoCatchAll(e) == e

\* except UpdateFailed: raise / except Exception: raise UpdateFailed(...):
\* the type of the exception that leaves _async_update_data
ExceptClauses(e) == IF e = "UpdateFailed" THEN e ELSE "UpdateFailed"

\* raise UpdateFailed: coordinator.data keeps its value.  When the update is
\* the first refresh, async_config_entry_first_refresh raises and
\* async_setup_entry returns False: the coordinator is never stored.
Fail(t, err) ==
    /\ tick' = [t EXCEPT !.status = "failed", !.err = Some(err),
                         !.exc = Some(ExceptClauses(RaisedAt(err.site)))]
    /\ data' = data
    /\ pc' = IF t.no = 1 THEN "setup_failed" ELSE "idle"

\* how the cache read of an update went
ReadKind(fails) == IF fails THEN "failed" ELSE "ok"

\* lines 111-119: the start-up shortcut, else the live request is sent
ContinueNormal(t) ==
    IF skip_first_request
    THEN \E fails \in BOOLEAN :
           LET o == LoadOutcome(cache, fails)
               u == [t EXCEPT !.read = ReadKind(fails)]
           IN  /\ cache' = RowsAfterLoad(cache)
               /\ IF o.raises
                  THEN /\ Fail(u, UpdateFailed("unexpected", None))
                       /\ skip_first_request' = skip_first_request
                  ELSE IF o.deliveries # <<>>
                  THEN /\ Publish(u, StartupSnapshot(o.deliveries))
                       /\ skip_first_request' = skip_first_request
                  ELSE /\ skip_first_request' = FALSE
                       /\ tick' = [u EXCEPT !.calls = @ + 1]
                       /\ pc' = "live"
                       /\ data' = data
    ELSE /\ skip_first_request' = FALSE
         /\ tick' = [t EXCEPT !.calls = @ + 1]
         /\ pc' = "live"
         /\ data' = data
         /\ cache' = cache

\* the fallback left out: the update fails whatever the cache holds
Fallback_AlwaysFail(t, site, retry) ==
    /\ Fail(t, UpdateFailed(site, retry))
    /\ cache' = cache

\* the cache fallback of a rate-limited update
Fallback(t, site, retry) ==
    \E fails \in BOOLEAN :
      LET o == LoadOutcome(cache, fails)
          u == [t EXCEPT !.read = ReadKind(fails)]
      IN  /\ cache' = RowsAfterLoad(cache)
          /\ IF o.raises
             THEN Fail(u, UpdateFailed("unexpected", None))
             ELSE IF o.deliveries # <<>>
             THEN Publish(u, CachedSnapshot(o.deliveries))
             ELSE Fail(u, UpdateFailed(site, retry))

\* who may ask the coordinator for a refresh now: the first refresh of
\* async_setup_entry, the interval timer the coordinator arms after every
\* refresh, or the loop of async_cleanup_old_deliveries, which awaits
\* coordinator.async_refresh() at the end of every pass
MayRefresh(caller) ==
    CASE caller = "first_refresh" -> tick.no = 0
      [] caller = "interval" ->
           /\ tick.no > 0
           /\ now >= (IF tick.respNow # None THEN tick.respNow[1]
                      ELSE tick.startNow) + POLL_INTERVAL
      [] caller = "cleanup_loop" -> tick.no > 0

----------------------------------------------------------------------------
(* Actions *)

\* async_setup_entry up to the first refresh
Setup ==
    /\ UNCHANGED standalone
    /\ pc = "new"
    /\ \E fails \in BOOLEAN :
         skip_first_request' = SetupSkipFlag(LoadOutcome(cache, fails))
    /\ cache' = RowsAfterLoad(cache)
    /\ pc' = "idle"
    /\ UNCHANGED <<now, rate_limited, rate_limit_until, probe_in_progress,
                   data, tick, prev>>

\* _async_update_data from its start to its first await (or its end)
TickBegin ==
    /\ UNCHANGED standalone
    /\ pc = "idle"
    /\ tick.no < MaxTicks
    /\ prev' = Summary(tick)
    /\ \E caller \in RefreshCallers :
       /\ MayRefresh(caller)
       /\ LET t == [NoTick EXCEPT !.no = tick.no + 1,
                                  !.caller = caller,
                                  !.startNow = now,
                                  !.startLimited = rate_limited,
                                  !.startUntil = rate_limit_until,
                                  !.startProbe = probe_in_progress,
                                  !.startSkip = skip_first_request,
                                  !.startCached = (cache # <<>>),
                                  !.status = "running"]
          IN  IF rate_limited /\ rate_limit_until # None
              THEN IF InWindow(now, rate_limit_until[1])
                   THEN /\ Fallback(t, "window", None)
                        /\ UNCHANGED <<probe_in_progress, skip_first_request>>
                   ELSE IF ~probe_in_progress
                   THEN /\ probe_in_progress' = TRUE
                        /\ tick' = [t EXCEPT !.calls = @ + 1]
                        /\ pc' = "probe"
                        /\ UNCHANGED <<skip_first_request, data, cache>>
                   ELSE /\ ContinueNormal(t)
                        /\ UNCHANGED probe_in_progress
              ELSE /\ ContinueNormal(t)
                   /\ UNCHANGED probe_in_progress
    /\ UNCHANGED <<now, rate_limited, rate_limit_until>>

\* the probe request returns r: lines 82-109, then on to lines 111-119
ProbeReturn ==
    /\ UNCHANGED standalone
    /\ pc = "probe"
    /\ \E r \in Responses :
         LET t == [tick EXCEPT !.probe = Some(r), !.respNow = Some(now)]
             c == Classify(r)
         IN  CASE c = "raise" ->
                    /\ Fail(t, UpdateFailed("unexpected", None))
                    /\ UNCHANGED <<rate_limited, rate_limit_until,
                                   probe_in_progress, skip_first_request,
                                   cache>>
               [] c = "ok" ->
                    /\ rate_limited' = ProbeOkState.rate_limited
                    /\ rate_limit_until' = ProbeOkState.rate_limit_until
                    /\ probe_in_progress' = ProbeOkState.probe_in_progress
                    /\ ContinueNormal(t)
               [] c = "rate_limited" ->
                    /\ rate_limit_until' = ExtendedLimitUntil(now)
                    /\ probe_in_progress' = FALSE
                    /\ Fallback(t, "probe_still_limited", None)
                    /\ UNCHANGED <<rate_limited, skip_first_request>>
               [] c = "error" ->
                    /\ rate_limited' = ProbeErrorState.rate_limited
                    /\ rate_limit_until' = ProbeErrorState.rate_limit_until
                    /\ probe_in_progress' = ProbeErrorState.probe_in_progress
                    /\ Fail(t, UpdateFailed("probe_error", None))
                    /\ UNCHANGED <<skip_first_request, cache>>
    /\ UNCHANGED <<now, prev>>

\* the live request returns r: lines 121-189
LiveReturn ==
    /\ UNCHANGED standalone
    /\ pc = "live"
    /\ \E r \in Responses :
         LET t == [tick EXCEPT !.live = Some(r), !.respNow = Some(now)]
             c == Classify(r)
         IN  CASE c = "raise" ->
                    /\ Fail(t, UpdateFailed("unexpected", None))
                    /\ UNCHANGED <<rate_limited, rate_limit_until, cache>>
               [] c = "rate_limited" ->
                    /\ rate_limited' = TRUE
                    /\ rate_limit_until' = NewLimitUntil(now)
                    /\ Fallback(t, "live_rate_limited", Some(RETRY_AFTER))
               [] c = "error" ->
                    /\ Fail(t, UpdateFailed("live_error", None))
                    /\ UNCHANGED <<rate_limited, rate_limit_until, cache>>
               [] c = "ok" ->
                    /\ rate_limited' = FALSE
                    /\ rate_limit_until' =
                         IF rate_limited THEN None ELSE rate_limit_until
                    /\ LET o == ProcessOutcome(r.deliveries, now)
                       IN  IF o.raises
                           THEN Fail(t, UpdateFailed("unexpected", None))
                           ELSE Publish(t, FreshSnapshot(o.deliveries))
                    /\ cache' = cache
    /\ UNCHANGED <<now, probe_in_progress, skip_first_request, prev>>

\* the wall clock moves on
AdvanceTime ==
    /\ UNCHANGED standalone
    /\ pc # "new"
    /\ now + TimeStep <= MaxTime
    /\ now' = now + TimeStep
    /\ UNCHANGED <<pc, rate_limited, rate_limit_until, probe_in_progress,
                   skip_first_request, cache, data, tick, prev>>

\* a holder of the cache file calls ParcelAppCache.save_deliveries
CacheSave ==
    /\ UNCHANGED standalone
    /\ pc # "new"
    /\ \E b \in SaveBatches : cache' = SaveDeliveries(cache, b)
    /\ UNCHANGED <<now, pc, rate_limited, rate_limit_until, probe_in_progress,
                   skip_first_request, data, tick, prev>>

\* a holder of the cache file calls ParcelAppCache.clear
CacheClear ==
    /\ UNCHANGED standalone
    /\ pc # "new"
    /\ cache' = ClearRows(cache)
    /\ UNCHANGED <<now, pc, rate_limited, rate_limit_until, probe_in_progress,
                   skip_first_request, data, tick, prev>>

Next ==
    \/ Setup
    \/ TickBegin
    \/ ProbeReturn
    \/ LiveReturn
    \/ AdvanceTime
    \/ CacheSave
    \/ CacheClear

Spec == Init /\ [][Next]_vars

\* The event loop runs every coroutine that is ready: a refresh that is due
\* starts, a request that was sent returns (or raises), and the clock moves.
Fairness ==
    /\ WF_vars(TickBegin)
    /\ WF_vars(ProbeReturn)
    /\ WF_vars(LiveReturn)
    /\ WF_vars(AdvanceTime)

SpecLive == Init /\ [][Next]_vars /\ Fairness

----------------------------------------------------------------------------
(* _should_remove_delivery called on its own, on any delivery at any clock *)

\* date_expected values: absent, empty, unparseable, not a string, and the
\* valid strings around the day boundaries
ReconcilerDates ==
    { NoDate, EmptyDate, InvalidDate, NonStringDate, ObjectDate }
    \cup { ValidDate(d, s) : d \in (0 - MaxDaysBack)..1,
                             s \in {0, 1, SECONDS_PER_DAY - 1} }

\* delivery dicts: status_code absent, completed or in transit
ReconcilerDeliveries ==
    { [tracking_number |-> Some("A"), status_code |-> c, date_expected |-> e]
        : c \in {None, Some(0), Some(2)}, e \in ReconcilerDates }

\* clock readings of datetime.now() inside _should_remove_delivery
ReconcilerClocks == {0, 1, SECONDS_PER_DAY - 1, SECONDS_PER_DAY}

InitReconciler ==
    /\ now \in ReconcilerClocks
    /\ pc = "reconciler"
    /\ rate_limited = FALSE
    /\ rate_limit_until = None
    /\ probe_in_progress = FALSE
    /\ skip_first_request = FALSE
    /\ cache = <<>>
    /\ data = None
    /\ tick = NoTick
    /\ prev = Summary(NoTick)
    /\ delivery \in ReconcilerDeliveries
    /\ removed = None
    /\ raw = <<>>
    /\ processed = None
    /\ again = None
    /\ saved = None
    /\ loaded = None
    /\ kv = EmptyMap
    /\ entry = NoEntry
    /\ loops = <<>>
    /\ devices = {}

\* self._should_remove_delivery(delivery_data)
ShouldRemoveCall ==
    /\ pc = "reconciler"
    /\ removed = None
    /\ removed' = Some(ShouldRemoveDelivery(delivery, now))
    /\ UNCHANGED <<now, pc, rate_limited, rate_limit_until,
                   probe_in_progress, skip_first_request, cache, data, tick,
                   prev, delivery, processing, caching,
                   lifecycle>>

\* the loop moves on to the next delivery of the list, the clock with it
NextDelivery ==
    /\ pc = "reconciler"
    /\ removed # None
    /\ delivery' \in ReconcilerDeliveries
    /\ now' \in ReconcilerClocks
    /\ removed' = None
    /\ UNCHANGED <<pc, rate_limited, rate_limit_until, probe_in_progress,
                   skip_first_request, cache, data, tick, prev, processing,
                   caching, lifecycle>>

NextReconciler == ShouldRemoveCall \/ NextDelivery

SpecReconciler == InitReconciler /\ [][NextReconciler]_vars

----------------------------------------------------------------------------
(* _process_deliveries called on its own, twice on one list *)

\* status_code values: the nine of the table, two outside it, and none
ProcessStatusCodes == { None } \cup { Some(c) : c \in -1..9 }

\* raw deliveries: every status code; completed ones with the dates that do
\* not parse and the ones around the three-day boundary; a missing and an
\* empty tracking number
ProcessItems ==
    { [tracking_number |-> Some("A"), status_code |-> c,
       date_expected |-> NoDate] : c \in ProcessStatusCodes }
    \cup { [tracking_number |-> Some("B"), status_code |-> Some(0),
            date_expected |-> e]
            : e \in { InvalidDate, NonStringDate, ValidDate(-3, 1),
                      ValidDate(-5, 0) } }
    \cup { [tracking_number |-> n, status_code |-> Some(2),
            date_expected |-> InvalidDate] : n \in { None, Some("") } }

\* sequences over S of length at most n
RECURSIVE SeqsUpTo(_, _)
SeqsUpTo(S, n) ==
    IF n = 0 THEN { <<>> }
    ELSE LET shorter == SeqsUpTo(S, n - 1)
         IN  shorter \cup { Append(q, x) : q \in shorter, x \in S }

\* the lists handed to _process_deliveries
ProcessBatches == SeqsUpTo(ProcessItems, MaxBatch)

\* clock readings of datetime.now() during the calls
ProcessClocks == {0, 1}

InitProcess ==
    /\ now \in ProcessClocks
    /\ pc = "process"
    /\ rate_limited = FALSE
    /\ rate_limit_until = None
    /\ probe_in_progress = FALSE
    /\ skip_first_request = FALSE
    /\ cache = <<>>
    /\ data = None
    /\ tick = NoTick
    /\ prev = Summary(NoTick)
    /\ delivery = RawA
    /\ removed = None
    /\ raw \in ProcessBatches
    /\ processed = None
    /\ again = None
    /\ saved = None
    /\ loaded = None
    /\ kv = EmptyMap
    /\ entry = NoEntry
    /\ loops = <<>>
    /\ devices = {}

\* one call of _process_deliveries at clock t, as its caller sees it
ProcessCallAt(t) ==
    [at |-> t, raises |-> ProcessOutcome(raw, t).raises,
     deliveries |-> ProcessOutcome(raw, t).deliveries]

\* self._process_deliveries(raw)
ProcessCall ==
    /\ pc = "process"
    /\ processed = None
    /\ processed' = Some(ProcessCallAt(now))
    /\ UNCHANGED <<now, pc, rate_limited, rate_limit_until,
                   probe_in_progress, skip_first_request, cache, data, tick,
                   prev, reconciler, raw, again, caching, lifecycle>>

\* the wall clock moves on between the two calls
ProcessClockTick ==
    /\ pc = "process"
    /\ processed # None
    /\ again = None
    /\ now + 1 \in ProcessClocks
    /\ now' = now + 1
    /\ UNCHANGED <<pc, rate_limited, rate_limit_until, probe_in_progress,
                   skip_first_request, cache, data, tick, prev, standalone>>

\* self._process_deliveries(raw), once more on the same list
ProcessAgain ==
    /\ pc = "process"
    /\ processed # None
    /\ again = None
    /\ again' = Some(ProcessCallAt(now))
    /\ UNCHANGED <<now, pc, rate_limited, rate_limit_until,
                   probe_in_progress, skip_first_request, cache, data, tick,
                   prev, reconciler, raw, processed, caching,
                   lifecycle>>

NextProcess == ProcessCall \/ ProcessClockTick \/ ProcessAgain

SpecProcess == InitProcess /\ [][NextProcess]_vars

----------------------------------------------------------------------------
(* The methods of ParcelAppCache called on their own, in any order *)

\* delivery A saved again with another status
CachedA2 == [CachedA EXCEPT !.status_code = Some(4),
                            !.status_name = "out_for_delivery"]

\* a delivery dict json.dumps rejects
CachedUnserialisable ==
    [tracking_number |-> Some("B"), status_code |-> Some(2),
     status_name |-> "in_transit", date_expected |-> ObjectDate,
     should_remove |-> FALSE]

\* the delivery dicts handed to save_deliveries
CacheRecords ==
    { CachedA, CachedA2, CachedB, CachedNoId, CachedUnserialisable }

\* the lists handed to save_deliveries
CacheBatches == SeqsUpTo(CacheRecords, MaxBatch)

\* the REPLACE on which sqlite fails, <<>> when it does not
SqliteFailures == { None } \cup { Some(i) : i \in 1..MaxBatch }

\* the dict tracking number -> delivery after the deliveries of list b that
\* have a tracking number were put into it, one after the other
KvPut(m, b) ==
    LET keyed == { i \in 1..Len(b) :
                     b[i].tracking_number \notin {None, Some("")} }
        ids == { b[i].tracking_number[1] : i \in keyed }
        last(id) == CHOOSE i \in keyed :
                      /\ b[i].tracking_number = Some(id)
                      /\ \A j \in keyed :
                           b[j].tracking_number = Some(id) => j <= i
    IN  [id \in (DOMAIN m) \cup ids |->
            IF id \in ids THEN b[last(id)] ELSE m[id]]

InitCache ==
    /\ now = 0
    /\ pc = "cache"
    /\ rate_limited = FALSE
    /\ rate_limit_until = None
    /\ probe_in_progress = FALSE
    /\ skip_first_request = FALSE
    /\ cache = <<>>
    /\ data = None
    /\ tick = NoTick
    /\ prev = Summary(NoTick)
    /\ delivery = RawA
    /\ removed = None
    /\ raw = <<>>
    /\ processed = None
    /\ again = None
    /\ saved = None
    /\ loaded = None
    /\ kv = EmptyMap
    /\ entry = NoEntry
    /\ loops = <<>>
    /\ devices = {}

\* cache.save_deliveries(b)
SaveCall ==
    /\ pc = "cache"
    /\ \E b \in CacheBatches, failAt \in SqliteFailures :
         LET o == SaveOutcome(cache, b, failAt)
         IN  /\ cache' = o.rows
             /\ saved' = Some([batch |-> b, before |-> cache,
                               stopped |-> o.stopped, raises |-> o.raises])
             /\ kv' = IF o.stopped THEN kv ELSE KvPut(kv, b)
    /\ loaded' = None
    /\ UNCHANGED <<now, pc, rate_limited, rate_limit_until,
                   probe_in_progress, skip_first_request, data, tick, prev,
                   reconciler, processing, lifecycle>>

\* cache.clear()
ClearCall ==
    /\ pc = "cache"
    /\ \E fails \in BOOLEAN :
         /\ cache' = ClearOutcome(cache, fails)
         /\ kv' = IF fails THEN kv ELSE EmptyMap
    /\ saved' = None
    /\ loaded' = None
    /\ UNCHANGED <<now, pc, rate_limited, rate_limit_until,
                   probe_in_progress, skip_first_request, data, tick, prev,
                   reconciler, processing, lifecycle>>

\* cache.load_deliveries()
LoadCall ==
    /\ pc = "cache"
    /\ \E fails \in BOOLEAN :
         loaded' = Some([failed |-> fails,
                         raises |-> LoadOutcome(cache, fails).raises,
                         deliveries |-> LoadOutcome(cache, fails).deliveries])
    /\ cache' = RowsAfterLoad(cache)
    /\ UNCHANGED <<now, pc, rate_limited, rate_limit_until,
                   probe_in_progress, skip_first_request, data, tick, prev,
                   reconciler, processing, saved, kv, lifecycle>>

NextCache == SaveCall \/ ClearCall \/ LoadCall

SpecCache == InitCache /\ [][NextCache]_vars

----------------------------------------------------------------------------
(* The config entry: set-up, unload, options reload, and the cleanup tasks *)

\* tracking numbers that may have a device in the registry
DeviceIds == {"A", "B"}

\* how a refresh of the coordinator ends: <<>> when it fails (coordinator.data
\* keeps its value), else the snapshot it publishes
RefreshOutcomes ==
    { None }
    \cup { Some(FreshSnapshot(ProcessDeliveries(b, 0))) : b \in Batches }
    \cup { Some(CachedSnapshot(<<CachedA, CachedB>>)) }

\* every tracking number of the snapshot, flagged or not
MarkedForRemoval_All(snapshot) ==
    { snapshot.deliveries[k].tracking_number[1] :
        k \in { j \in 1..Len(snapshot.deliveries) :
                  snapshot.deliveries[j].tracking_number # None } }

\* the tracking numbers the loop looks up in the device registry: those of
\* the deliveries of coordinator.data with delivery.get("should_remove")
MarkedForRemoval(snapshot) ==
    { snapshot.deliveries[k].tracking_number[1] :
        k \in { j \in 1..Len(snapshot.deliveries) :
                  /\ snapshot.deliveries[j].should_remove
                  /\ snapshot.deliveries[j].tracking_number # None } }

\* a cleanup task as created: at the top of its loop, no coordinator fetched
NewLoop == [pc |-> "check", coord |-> 0, removed |-> {}]

InitEntry ==
    /\ now = 0
    /\ pc = "entry"
    /\ rate_limited = FALSE
    /\ rate_limit_until = None
    /\ probe_in_progress = FALSE
    /\ skip_first_request = FALSE
    /\ cache = <<>>
    /\ data = None
    /\ tick = NoTick
    /\ prev = Summary(NoTick)
    /\ delivery = RawA
    /\ removed = None
    /\ raw = <<>>
    /\ processed = None
    /\ again = None
    /\ saved = None
    /\ loaded = None
    /\ kv = EmptyMap
    /\ entry = NoEntry
    /\ loops = <<>>
    /\ devices \in SUBSET DeviceIds

\* what the actions of the config entry leave alone
EntryFrame ==
    UNCHANGED <<now, pc, rate_limited, rate_limit_until, probe_in_progress,
                skip_first_request, cache, tick, prev, reconciler,
                processing, caching>>

\* async_setup_entry up to `await coordinator.async_config_entry_first_refresh()`
SetupBegin ==
    /\ pc = "entry"
    /\ entry.state = "not_loaded"
    /\ entry.gen < MaxSetups
    /\ entry' = [state |-> "first_refresh", gen |-> entry.gen + 1]
    /\ data' = None
    /\ UNCHANGED <<loops, devices>>
    /\ EntryFrame

\* async_setup_entry from the first refresh on: a failed refresh makes it
\* return False; else the coordinator is stored in hass.data and the cleanup
\* task is created
SetupFinish ==
    /\ pc = "entry"
    /\ entry.state = "first_refresh"
    /\ \E o \in RefreshOutcomes :
         IF o = None
         THEN /\ entry' = [entry EXCEPT !.state = "not_loaded"]
              /\ data' = None
              /\ loops' = loops
         ELSE /\ entry' = [entry EXCEPT !.state = "loaded"]
              /\ data' = o
              /\ loops' = Append(loops, NewLoop)
    /\ UNCHANGED devices
    /\ EntryFrame

\* async_unload_entry: hass.data[DOMAIN].pop(entry.entry_id)
UnloadEntry ==
    /\ pc = "entry"
    /\ entry.state = "loaded"
    /\ entry' = [entry EXCEPT !.state = "not_loaded"]
    /\ data' = None
    /\ UNCHANGED <<loops, devices>>
    /\ EntryFrame

\* async_update_options: async_reload unloads the entry and sets it up again
UpdateOptions ==
    /\ pc = "entry"
    /\ entry.state = "loaded"
    /\ entry.gen < MaxSetups
    /\ entry' = [state |-> "first_refresh", gen |-> entry.gen + 1]
    /\ data' = None
    /\ UNCHANGED <<loops, devices>>
    /\ EntryFrame

\* the interval timer refreshes the coordinator of the loaded entry
IntervalRefresh ==
    /\ pc = "entry"
    /\ entry.state = "loaded"
    /\ \E o \in RefreshOutcomes : data' = IF o = None THEN data ELSE o
    /\ UNCHANGED <<entry, loops, devices>>
    /\ EntryFrame

\* one pass of the `while True` of task i, from its top to
\* `await coordinator.async_refresh()`, or to the break
LoopPass(i) ==
    /\ pc = "entry"
    /\ loops[i].pc = "check"
    /\ IF entry.state # "loaded"
       THEN /\ loops' = [loops EXCEPT ![i].pc = "done"]
            /\ devices' = devices
       ELSE LET marked == IF data = None THEN {}
                          ELSE MarkedForRemoval(data[1])
            IN  /\ devices' = devices \ marked
                /\ loops' = [loops EXCEPT ![i] =
                                [pc |-> "refresh", coord |-> entry.gen,
                                 removed |-> devices \cap marked]]
    /\ UNCHANGED <<entry, data>>
    /\ EntryFrame

\* the refresh task i awaits has ended: it published to the coordinator the
\* task had fetched, which is coordinator.data when that entry is still loaded
LoopRefreshReturn(i) ==
    /\ pc = "entry"
    /\ loops[i].pc = "refresh"
    /\ \E o \in RefreshOutcomes :
         data' = IF /\ o # None
                    /\ entry.state = "loaded"
                    /\ loops[i].coord = entry.gen
                 THEN o ELSE data
    /\ loops' = [loops EXCEPT ![i].pc = "check"]
    /\ UNCHANGED <<entry, devices>>
    /\ EntryFrame

NextEntry ==
    \/ SetupBegin
    \/ SetupFinish
    \/ UnloadEntry
    \/ UpdateOptions
    \/ IntervalRefresh
    \/ \E i \in 1..Len(loops) : LoopPass(i)
    \/ \E i \in 1..Len(loops) : LoopRefreshReturn(i)

SpecEntry == InitEntry /\ [][NextEntry]_vars

----------------------------------------------------------------------------
(* Vocabulary of the properties *)

\* the update recorded in `tick` has ended
Finished == tick.status \in {"published", "failed"}

\* the three tagged results of the Remote Client
RespOk(r) == ~r.raises /\ r.success
RespRateLimited(r) ==
    ~r.raises /\ ~r.success /\ r.error_message = Some(RATE_LIMIT_MESSAGE)
RespOtherError(r) ==
    ~r.raises /\ ~r.success /\ r.error_message \in {None, Some("HTTP 500")}

\* the deliveries the cache rows hold, in row order
CacheContents(rows) == [i \in 1..Len(rows) |-> JsonLoads(rows[i].data)]

\* the update began Limited and inside the cooldown window
BeganInsideWindow ==
    /\ tick.status # "none"
    /\ tick.startLimited
    /\ tick.startUntil # None
    /\ tick.startNow < tick.startUntil[1]

----------------------------------------------------------------------------
(* Properties *)

\* C1: an update that begins Limited with now < limitedUntil issues no
\* Remote Client call: it ends at once, with neither a probe nor a live
\* request, whatever the cache holds and however many updates fall inside
\* the window.
C1_NoCallInsideWindow ==
    BeganInsideWindow =>
        /\ tick.calls = 0
        /\ tick.probe = None
        /\ tick.live = None
        /\ Finished

\* two updates in a row inside the window, the second serving the cache
C1_Witness ==
    /\ BeganInsideWindow
    /\ prev.no >= 2 /\ prev.calls = 0
    /\ tick.status = "published"

\* C2: an update that begins Normal and whose live request comes back
\* RateLimited ends Limited, with limitedUntil exactly one hour after the
\* clock reading at which the response was handled.
C2_RateLimitedEntersLimited ==
    (/\ ~tick.startLimited
     /\ tick.live # None
     /\ RespRateLimited(tick.live[1]))
    => /\ Finished
       /\ rate_limited
       /\ rate_limit_until = Some(tick.respNow[1] + 3600)

C2_Witness ==
    /\ ~tick.startLimited
    /\ tick.live # None
    /\ RespRateLimited(tick.live[1])
    /\ rate_limit_until = Some(now + 3600)
    /\ now > 0

\* C3: every update issues at most one Remote Client call.
C3_AtMostOneCallPerTick == tick.calls <= 1

\* C4: an update that publishes while the coordinator is Limited and the
\* cache is non-empty publishes the cache contents, flagged servedFromCache
\* and rateLimited.
C4_LimitedPublishesFlaggedCache ==
    [][ (/\ tick' # tick
         /\ tick'.status = "published"
         /\ rate_limited'
         /\ cache' # <<>>)
        => data' = Some([deliveries |-> CacheContents(cache'),
                         cached |-> TRUE,
                         rate_limited |-> TRUE]) ]_vars

C4_Witness ==
    /\ tick.status = "published"
    /\ rate_limited
    /\ cache # <<>>
    /\ data = Some([deliveries |-> CacheContents(cache),
                    cached |-> TRUE, rate_limited |-> TRUE])

\* C5: an update that publishes fresh data from a successful live fetch has
\* written every published record to the cache by the time it ends.
C5_FreshFetchWritesThrough ==
    [][ (/\ tick.status = "running"
         /\ tick'.status = "published"
         /\ ~data'[1].cached)
        => \A i \in 1..Len(data'[1].deliveries) :
              data'[1].deliveries[i].tracking_number # None
              => \E j \in 1..Len(cache') :
                    /\ cache'[j].id =
                          data'[1].deliveries[i].tracking_number[1]
                    /\ JsonLoads(cache'[j].data)
                          = data'[1].deliveries[i] ]_vars

\* C6: with a non-empty cache at first activation the first update publishes
\* the cached snapshot (servedFromCache, not rateLimited) without a Remote
\* Client call, and the update after it issues a live call.
C6_ShortcutFirstTickOnly ==
    /\ (tick.no = 1 /\ tick.startSkip /\ tick.startCached
                     /\ tick.read # "failed")
       => /\ tick.status = "published"
          /\ tick.calls = 0
          /\ data # None /\ data[1].cached /\ ~data[1].rate_limited
    /\ (tick.no = 2 /\ prev.status = "published" /\ prev.calls = 0)
       => tick.calls >= 1

\* C7: a probe update whose probe returns Ok ends Normal (isLimited false,
\* limitedUntil unset, probeInFlight false) and publishes fresh data, and the
\* update after it calls the Remote Client.
C7_ProbeOkRecovers ==
    /\ (tick.probe # None /\ RespOk(tick.probe[1]) /\ Finished)
       => /\ ~rate_limited
          /\ rate_limit_until = None
          /\ ~probe_in_progress
          /\ tick.status = "published"
          /\ data # None /\ ~data[1].cached /\ ~data[1].rate_limited
    /\ (prev.probe # None /\ RespOk(prev.probe[1]) /\ tick.no = prev.no + 1)
       => tick.calls >= 1

\* C8: a probe that comes back RateLimited keeps the coordinator Limited,
\* sets limitedUntil one hour after the clock reading at which the response
\* was handled, clears probeInFlight, and falls back to the cache: the cached
\* records are published flagged when the cache is non-empty (and its read
\* does not fail), the update fails as rate limited otherwise.
C8_ProbeStillLimited ==
    [][ (/\ pc = "probe"
         /\ tick'.probe # None
         /\ RespRateLimited(tick'.probe[1]))
        => /\ rate_limited'
           /\ rate_limit_until' = Some(now + 3600)
           /\ ~probe_in_progress'
           /\ IF cache # <<>> /\ tick'.read # "failed"
              THEN /\ tick'.status = "published"
                   /\ data' = Some([deliveries |-> CacheContents(cache),
                                    cached |-> TRUE,
                                    rate_limited |-> TRUE])
              ELSE /\ tick'.status = "failed"
                   /\ tick'.err[1].site = "probe_still_limited"
                   /\ data' = data ]_vars

C8_Witness ==
    /\ tick.probe # None
    /\ RespRateLimited(tick.probe[1])
    /\ tick.status = "published"
    /\ rate_limited
    /\ rate_limit_until = Some(tick.respNow[1] + 3600)
    /\ tick.respNow[1] > tick.startNow

\* C9: a probe that comes back with an error other than a rate limit clears
\* isLimited, limitedUntil and probeInFlight and fails the update as a
\* transient API error; the update after it sends a live request, not a probe.
C9_ProbeErrorResets ==
    /\ (tick.probe # None /\ RespOtherError(tick.probe[1]))
       => /\ ~rate_limited
          /\ rate_limit_until = None
          /\ ~probe_in_progress
          /\ tick.status = "failed"
          /\ tick.err = Some([site |-> "probe_error", retry_after |-> None])
    /\ (prev.probe # None /\ RespOtherError(prev.probe[1])
        /\ tick.no = prev.no + 1)
       => /\ ~tick.startLimited
          /\ tick.calls = 1
          /\ tick.probe = None
          /\ (Finished => tick.live # None)

C9_Witness ==
    /\ prev.probe # None
    /\ RespOtherError(prev.probe[1])
    /\ tick.no = prev.no + 1
    /\ tick.live # None

\* C10: an update that begins Normal and whose live request comes back with an
\* error other than a rate limit fails as a transient API error and leaves
\* isLimited, limitedUntil and probeInFlight as they were when it began.
C10_NormalErrorKeepsState ==
    (/\ ~tick.startLimited
     /\ tick.live # None
     /\ RespOtherError(tick.live[1]))
    => /\ tick.status = "failed"
       /\ tick.err = Some([site |-> "live_error", retry_after |-> None])
       /\ rate_limited = tick.startLimited
       /\ rate_limit_until = tick.startUntil
       /\ probe_in_progress = tick.startProbe

C10_Witness ==
    /\ ~tick.startLimited
    /\ tick.live # None
    /\ tick.live[1].error_message = Some("HTTP 500")
    /\ tick.status = "failed"
    /\ tick.no >= 2

\* C11: at every point where no update is running, limitedUntil is set
\* exactly when isLimited is true.
C11_UntilSetIffLimited ==
    (pc \in {"idle", "setup_failed"} /\ tick.status # "none")
    => ((rate_limit_until # None) <=> rate_limited)

\* Limited after a rate-limited update, and Normal again after a recovery
C11_Witness ==
    /\ pc = "idle"
    /\ tick.startLimited
    /\ tick.live # None /\ RespOk(tick.live[1])
    /\ ~rate_limited
    /\ rate_limit_until = None

\* C12: probeInFlight is false whenever an update has ended, also when the
\* probe request raised instead of returning a result.
C12_ProbeFlagClearAfterTick ==
    Finished => ~probe_in_progress

\* C13: an update that begins Limited with probeInFlight set issues no
\* Remote Client call, also when now >= limitedUntil.
C13_ProbeInFlightServesCache ==
    (/\ tick.status # "none"
     /\ tick.startLimited
     /\ tick.startUntil # None
     /\ tick.startProbe)
    => tick.calls = 0

\* C14: an update that begins inside the cooldown window leaves isLimited,
\* limitedUntil and probeInFlight as it found them.
C14_WindowTickKeepsState ==
    BeganInsideWindow =>
        /\ rate_limited = tick.startLimited
        /\ rate_limit_until = tick.startUntil
        /\ probe_in_progress = tick.startProbe

\* the third update in a row that leaves the deadline where the first
\* rate-limited response put it
C14_Witness ==
    /\ BeganInsideWindow
    /\ tick.no >= 4
    /\ prev.calls = 0
    /\ Finished
    /\ rate_limit_until = tick.startUntil
    /\ now > tick.startNow

\* the places where an update fails because of the rate limit
RateLimitedSites == {"window", "probe_still_limited", "live_rate_limited"}

\* the response that decided how the update of tick record t ended
LastResponse(t) == IF t.live # None THEN t.live ELSE t.probe

\* C15 as stated: an update that ends while the cache holds data publishes
\* a Snapshot, whatever the Remote Client returned.
C15_NoFailureWhileCached ==
    [][ (/\ tick' # tick
         /\ tick'.status \in {"published", "failed"}
         /\ cache # <<>>)
        => tick'.status = "published" ]_vars

\* C15 as amended: an update that ends while the cache holds data, and whose
\* cache read did not fail, fails only when its Remote Client call came back
\* with an error other than a rate limit or raised; a rate-limited update
\* publishes.
C15_FailureWhileCachedIsTransient ==
    [][ (/\ tick' # tick
         /\ tick'.status = "failed"
         /\ tick'.read # "failed"
         /\ cache # <<>>)
        => /\ LastResponse(tick') # None
           /\ \/ LastResponse(tick')[1].raises
              \/ RespOtherError(LastResponse(tick')[1]) ]_vars

\* a live request answered RateLimited, served from the non-empty cache
C15_Witness ==
    /\ tick.status = "published"
    /\ tick.live # None /\ RespRateLimited(tick.live[1])
    /\ cache # <<>>
    /\ data # None /\ data[1].cached /\ data[1].deliveries # <<>>

\* C16: an update fails as rate limited only when its cache read returned no
\* records: the cache was empty or the read failed.
C16_RateLimitedFailureOnlyOnEmptyCache ==
    [][ (/\ tick' # tick
         /\ tick'.status = "failed"
         /\ tick'.err[1].site \in RateLimitedSites)
        => (cache = <<>> \/ tick'.read = "failed") ]_vars

\* a probe answered RateLimited with nothing in the cache
C16_Witness ==
    /\ tick.status = "failed"
    /\ tick.err[1].site = "probe_still_limited"
    /\ tick.probe # None /\ RespRateLimited(tick.probe[1])
    /\ cache = <<>>

\* C17: every update that fails as rate limited carries a retry-after of
\* 3600 seconds.
C17_RateLimitedFailureHasRetryAfter ==
    (tick.status = "failed" /\ tick.err[1].site \in RateLimitedSites)
    => tick.err[1].retry_after = Some(3600)

\* C18: an update that has ended has either published a Snapshot or left
\* with UpdateFailed; no other exception leaves it, also when the request
\* raised or its response could not be read.
C18_SnapshotOrUpdateFailed ==
    Finished =>
        \/ /\ tick.status = "published"
           /\ tick.exc = None /\ tick.err = None
           /\ data # None
        \/ /\ tick.status = "failed"
           /\ tick.exc = Some("UpdateFailed")
           /\ tick.err # None

\* a live request that raised, reported as UpdateFailed
C18_Witness ==
    /\ tick.live # None /\ tick.live[1].raises
    /\ tick.status = "failed"
    /\ tick.exc = Some("UpdateFailed")
    /\ tick.err[1].site = "unexpected"

\* C20: _should_remove_delivery answers True exactly when status_code is 0
\* and date_expected is a parseable date at least three full days (259200
\* seconds) before now: three days to the second gives True, anything
\* younger, a future date, or a missing or unparseable date gives False.
C20_ShouldRemoveIffThreeDaysOld ==
    removed # None =>
        removed[1] =
            (/\ delivery.status_code = Some(0)
             /\ delivery.date_expected.kind = "valid"
             /\ now - (delivery.date_expected.day * 86400
                       + delivery.date_expected.sec) >= 3 * 86400)

\* a completed delivery expected exactly three days before now
C20_Witness ==
    /\ removed = Some(TRUE)
    /\ delivery.status_code = Some(0)
    /\ delivery.date_expected.kind = "valid"
    /\ now - (delivery.date_expected.day * 86400
              + delivery.date_expected.sec) = 3 * 86400
    /\ now > 0

\* the removal rule applied to record d at clock t: completed, and expected
\* at least three days before t
DueForRemoval(d, t) ==
    /\ d.status_code = Some(0)
    /\ d.date_expected.kind = "valid"
    /\ t - (d.date_expected.day * 86400 + d.date_expected.sec) >= 3 * 86400

\* C21: the records published from the cache during a rate limit carry
\* shouldRemove evaluated at the current time: a cached record with status 0
\* and dateExpected five days before now is published with shouldRemove true.
C21_CachedRecordsReevaluated ==
    [][ (/\ tick' # tick
         /\ tick'.status = "published"
         /\ data'[1].cached
         /\ data'[1].rate_limited)
        => \A i \in 1..Len(data'[1].deliveries) :
              data'[1].deliveries[i].should_remove
                = DueForRemoval(data'[1].deliveries[i], now) ]_vars

\* C22: every published Snapshot holds only records with a non-empty
\* tracking id, each id at most once: raw items without a tracking id are
\* dropped before reconciliation.
C22_PublishedIdsNonEmptyUnique ==
    data # None =>
        LET ds == data[1].deliveries
        IN  /\ \A i \in 1..Len(ds) :
                 /\ ds[i].tracking_number # None
                 /\ ds[i].tracking_number # Some("")
            /\ \A i, j \in 1..Len(ds) :
                 i # j => ds[i].tracking_number # ds[j].tracking_number

\* C23: an item whose dateExpected cannot be parsed gets shouldRemove false
\* and no exception leaves the reconciliation: the item is emitted, and so is
\* every other item of the list.
C23_UnparseableDateKeepsItem ==
    processed # None =>
        /\ ~processed[1].raises
        /\ Len(processed[1].deliveries) = Len(raw)
        /\ \A i \in 1..Len(raw) :
             /\ processed[1].deliveries[i].tracking_number
                  = raw[i].tracking_number
             /\ raw[i].date_expected.kind \in {"invalid", "nonstr", "object"}
                  => ~processed[1].deliveries[i].should_remove

\* a completed delivery whose date is a number, next to one that is due
C23_Witness ==
    /\ processed # None
    /\ Len(raw) = 2
    /\ raw[1].status_code = Some(0)
    /\ raw[1].date_expected.kind = "nonstr"
    /\ raw[2].date_expected = ValidDate(-5, 0)
    /\ Len(processed[1].deliveries) = 2
    /\ ~processed[1].deliveries[1].should_remove
    /\ processed[1].deliveries[2].should_remove

\* C24: status codes 0..8 are published under their fixed names, every other
\* code, and a missing code, as "unknown".
C24_StatusNames ==
    processed # None =>
        \A i \in 1..Len(raw) :
          LET names == <<"completed", "frozen", "in_transit",
                         "awaiting_pickup", "out_for_delivery", "not_found",
                         "failed_attempt", "exception",
                         "carrier_info_received">>
              c == raw[i].status_code
          IN  processed[1].deliveries[i].status_name
                = IF c # None /\ c[1] \in 0..8 THEN names[c[1] + 1]
                  ELSE "unknown"

\* code 8 next to a delivery without a code
C24_Witness ==
    /\ processed # None
    /\ Len(raw) = 2
    /\ raw[1].status_code = Some(8)
    /\ raw[2].status_code = None
    /\ processed[1].deliveries[1].status_name = "carrier_info_received"
    /\ processed[1].deliveries[2].status_name = "unknown"

\* every input record gives one output record, at its place in the list
OnePerInputInOrder(call) ==
    /\ Len(call.deliveries) = Len(raw)
    /\ \A i \in 1..Len(raw) :
         /\ call.deliveries[i].tracking_number = raw[i].tracking_number
         /\ call.deliveries[i].status_code = raw[i].status_code
         /\ call.deliveries[i].date_expected = raw[i].date_expected

C25_CacheIsMapById ==
    (loaded # None /\ ~loaded[1].failed) =>
        LET l == loaded[1].deliveries
        IN  /\ ~loaded[1].raises
            /\ Len(l) = Cardinality(DOMAIN kv)
            /\ \A i \in 1..Len(l) :
                 /\ l[i].tracking_number # None
                 /\ l[i].tracking_number[1] \in DOMAIN kv
                 /\ l[i] = kv[l[i].tracking_number[1]]

\* A saved, then saved again with another status next to B, then loaded
C25_Witness ==
    /\ loaded # None /\ ~loaded[1].failed
    /\ saved # None /\ ~saved[1].stopped
    /\ saved[1].before = <<Row(CachedA)>>
    /\ saved[1].batch = <<CachedA2, CachedB>>
    /\ loaded[1].deliveries = <<CachedA2, CachedB>>

\* C26: save_deliveries is all-or-nothing per call: afterwards the cache
\* holds every record of the list or is as it was before the call, never a
\* proper subset, also when a record of the list cannot be stored.
C26_SaveAllOrNothing ==
    saved # None =>
        LET b == saved[1].batch
        IN  \/ cache = saved[1].before
            \/ \A i \in 1..Len(b) :
                 (\A j \in (i + 1)..Len(b) :
                     b[j].tracking_number # b[i].tracking_number)
                 => \E k \in 1..Len(cache) : JsonLoads(cache[k].data) = b[i]

\* C27: reading the cache never changes it: every step of an update, the
\* fallbacks to the cache among them, leaves the rows as they were.
C27_UpdateLeavesCacheAlone ==
    [][ tick' # tick => cache' = cache ]_vars

\* a rate-limited update that published the rows it read, the rows still there
C27_Witness ==
    /\ tick.status = "published"
    /\ tick.read = "ok"
    /\ data # None /\ data[1].cached /\ data[1].rate_limited
    /\ cache # <<>>
    /\ data[1].deliveries = CacheContents(cache)

\* this step is the one in which the update's cache read failed
ReadFailedNow ==
    /\ tick' # tick
    /\ tick'.read = "failed"
    /\ (tick'.no # tick.no \/ tick.read = "none")

\* C28: a cache read that fails counts as an empty cache for that read and
\* never blocks a live fetch: the update goes on as with an empty cache (it
\* sends its live request, or fails as rate limited on a fallback), and a
\* live request answered Ok publishes the fresh records.
C28_FailedReadIsEmptyCache ==
    /\ [][ ReadFailedNow
           => \/ /\ tick'.status = "running"
                 /\ pc' = "live"
                 /\ tick'.calls = (IF tick'.no = tick.no THEN tick.calls
                                   ELSE 0) + 1
                 /\ ~skip_first_request'
                 /\ data' = data
              \/ /\ tick'.status = "failed"
                 /\ tick'.err[1].site \in RateLimitedSites
                 /\ data' = data ]_vars
    /\ [][ (/\ pc = "live"
            /\ tick'.live # None
            /\ RespOk(tick'.live[1]))
           => /\ tick'.status = "published"
              /\ ~data'[1].cached
              /\ Len(data'[1].deliveries) = Len(tick'.live[1].deliveries) ]_vars

\* the start-up read failed over a non-empty cache, the live request was
\* sent and its fresh records were published
C28_Witness ==
    /\ tick.read = "failed"
    /\ tick.startSkip /\ tick.startCached /\ ~tick.startLimited
    /\ cache # <<>>
    /\ tick.live # None /\ RespOk(tick.live[1])
    /\ tick.status = "published"
    /\ data # None /\ ~data[1].cached

\* C30: the device-cleanup loop waits for the coordinator's next scheduled
\* update and starts none itself: every update, and so every Remote Client
\* call, is started by the first refresh or by the poll-interval timer.
C30_CleanupLoopStartsNoUpdate ==
    /\ tick.caller # "cleanup_loop"
    /\ tick.calls > 0 => tick.caller \in {"first_refresh", "interval"}

\* the explored part of the run ends inside the window: before limitedUntil
\* the last update has been spent or the clock has stopped
RunEndsInsideWindow ==
    /\ rate_limit_until # None
    /\ now < rate_limit_until[1]
    /\ (tick.no = MaxTicks \/ now + TimeStep > MaxTime)

\* C31: the cooldown is never permanent: an update that begins Limited with
\* now >= limitedUntil sends a request (probe or live), also when
\* probeInFlight was left set; and a Limited coordinator whose updates go on
\* while the clock advances sends a request again.
C31_CooldownNotPermanent ==
    /\ [][ (/\ tick'.no # tick.no
            /\ rate_limited
            /\ rate_limit_until # None
            /\ now >= rate_limit_until[1])
           => /\ tick'.calls = 1
              /\ pc' \in {"probe", "live"} ]_vars
    /\ (rate_limited /\ pc = "idle" /\ tick.no < MaxTicks)
         ~> (pc \in {"probe", "live"} \/ RunEndsInsideWindow)

\* probeInFlight was left set by a probe that raised; the update after it
\* began past limitedUntil and sent the live request
C31_Witness ==
    /\ tick.startLimited
    /\ tick.startProbe
    /\ tick.startUntil # None
    /\ tick.startNow >= tick.startUntil[1]
    /\ tick.calls = 1
    /\ pc = "live"

\* C32: at most one cleanup loop runs per config entry: the loop started by
\* an earlier set-up stops once that entry was unloaded, also when the entry
\* was set up again straight away: a loop goes on to another pass only under
\* the set-up whose coordinator it fetched on its pass before.
C32_OldLoopStopsAfterUnload ==
    [][ \A i \in 1..Len(loops) :
          (/\ loops[i].pc = "check"
           /\ loops[i].coord # 0
           /\ loops'[i].pc = "refresh")
          => loops[i].coord = entry.gen ]_vars

\* C33: the cleanup loop removes a device only for a tracking id whose
\* record in the published snapshot has should_remove true, and a refresh of
\* the coordinator removes no device and no cache row.
C33_RemovesOnlyFlagged ==
    [][ /\ \A id \in devices \ devices' :
             /\ data # None
             /\ \E k \in 1..Len(data[1].deliveries) :
                  /\ data[1].deliveries[k].tracking_number = Some(id)
                  /\ data[1].deliveries[k].should_remove
        /\ data' # data => (devices' = devices /\ cache' = cache) ]_vars

\* a pass removed the device of B, flagged in the snapshot, and left the
\* device of A
C33_Witness ==
    /\ \E i \in 1..Len(loops) : loops[i].removed = {"B"}
    /\ "A" \in devices
    /\ "B" \notin devices

====
